---------------------------- MODULE Spec2Model ----------------------------
(***************************************************************************)
(* A model of the retrieval pipeline of the space-biology knowledge engine *)
(* (backend/rag_core.py, backend/ingest.py, backend/app.py).               *)
(*                                                                         *)
(* Five specifications share the module:                                   *)
(*   SpecChunk  - rag_core.chunk_text, one loop iteration per step;        *)
(*   SpecBuild  - ingest.run_ingest writing the two files of the serving   *)
(*                location, and app._load_index_and_meta reading them;     *)
(*   SpecServe  - the query handlers of app.py over the loaded state;      *)
(*   SpecTag    - rag_core.tag_text and app._guess_from_text;               *)
(*   SpecEmbed  - rag_core.embed_texts, one request to the service per step.*)
(***************************************************************************)
EXTENDS Integers, Sequences, FiniteSets, TLC

VARIABLES
    ck,         \* the frame of one call of chunk_text (its local variables)
    idxFile,    \* data/index/index.faiss, the serving location's index file
    metaFile,   \* data/index/meta.jsonl, the serving location's metadata file
    ing,        \* the frame of one call of run_ingest
    ld,         \* the frame of one call of _load_index_and_meta
    index,      \* app.index: the loaded vector index, or NoIndex
    meta,       \* app.meta: the loaded metadata sequence
    req,        \* the request being served
    resp,       \* the response of the last request
    calls,      \* the calls to the collaborators made by the last request
    tg,         \* the frame of one call of tag_text and of _guess_from_text
    emb         \* the frame of one call of embed_texts

vars == <<ck, idxFile, metaFile, ing, ld, index, meta, req, resp, calls,
          tg, emb>>
cvars == <<ck>>
bvars == <<idxFile, metaFile, ing, ld>>
svars == <<index, meta, req, resp, calls>>
uvars == <<tg, emb>>

(* no call of the tagger, no call of the embedder *)
IdleTag == [pc |-> "idle"]
IdleEmbed == [pc |-> "idle"]

Min(a, b) == IF a <= b THEN a ELSE b
Max(a, b) == IF a >= b THEN a ELSE b

(***************************************************************************)
(* Strings.  A passage is a sequence of runs of words.  A run is the words *)
(* a..b of candidate piece p, each word costing w tokens, and sep is what  *)
(* separates the run from the text before it: "none" (start of the         *)
(* string), "sp" (a space) or "nl" (a newline).                            *)
(***************************************************************************)
EmptyStr == <<>>

Run(p, a, b, w, sep) == [p |-> p, a |-> a, b |-> b, w |-> w, sep |-> sep]

RunWords(r) == r.b - r.a + 1

RECURSIVE WordCount(_)
WordCount(s) ==
    IF s = <<>> THEN 0 ELSE RunWords(s[1]) + WordCount(Tail(s))

(* tokenize_len: the byte-pair encoder gives a word (with the space before *)
(* it) its own tokens and a newline one token.                             *)
RECURSIVE tokenize_len(_)
tokenize_len(s) ==
    IF s = <<>> THEN 0
    ELSE RunWords(s[1]) * s[1].w + (IF s[1].sep = "nl" THEN 1 ELSE 0)
         + tokenize_len(Tail(s))

(* a + "\n" + b when a is not empty, b otherwise *)
JoinNL(a, b) ==
    IF a = <<>> THEN b
    ELSE IF b = <<>> THEN a
    ELSE a \o <<[b[1] EXCEPT !.sep = "nl"]>> \o Tail(b)

(* " ".join(runs) *)
SpaceJoin(s) ==
    [k \in 1..Len(s) |-> [s[k] EXCEPT !.sep = IF k = 1 THEN "none" ELSE "sp"]]

(* s.split()[-n:] : the last n words of s *)
RECURSIVE LastWords(_, _)
LastWords(s, n) ==
    IF n <= 0 \/ s = <<>> THEN <<>>
    ELSE LET last == s[Len(s)]
         IN  IF RunWords(last) >= n
             THEN <<[last EXCEPT !.a = last.b - n + 1]>>
             ELSE LastWords(SubSeq(s, 1, Len(s) - 1), n - RunWords(last))
                  \o <<last>>

(***************************************************************************)
(* rag_core.chunk_text                                                     *)
(***************************************************************************)
CHUNK_TOKENS == 900
CHUNK_OVERLAP == 200
step == 300
TailWords == 120

\* bounds of the chunker's inputs
MaxPieces == 3
MaxChunks == 6

(* A candidate piece after strip(): n words of w tokens each; n = 0 is a   *)
(* blank piece.                                                            *)
PieceShapes ==
    { [n |-> 0, w |-> 1], [n |-> 1, w |-> 1], [n |-> 3, w |-> 1],
      [n |-> 2, w |-> 2], [n |-> 200, w |-> 5], [n |-> 300, w |-> 4],
      [n |-> 650, w |-> 1], [n |-> 667, w |-> 3], [n |-> 1000, w |-> 2] }

Budgets == {2, 4, CHUNK_TOKENS}
Overlaps == {0, CHUNK_OVERLAP, 900}

Texts == UNION { [1..k -> PieceShapes] : k \in 1..MaxPieces }

(* the stripped candidate i of the text, as a string *)
Piece(text, i) ==
    IF text[i].n = 0 THEN EmptyStr
    ELSE <<Run(i, 1, text[i].n, text[i].w, "none")>>

(* text[:2000] of a text whose candidates are all blank: white space, one  *)
(* separator between two candidates.                                       *)
RawPrefix(text) == <<Run(0, 1, Len(text) - 1, 1, "none")>>

NewFrame(text, max_tokens, overlap) ==
    [pc |-> "greedy", candidates |-> text, max_tokens |-> max_tokens,
     overlap |-> overlap, i |-> 1, buff |-> EmptyStr, chunks |-> <<>>,
     start |-> 0, final |-> <<>>, result |-> <<>>, fallback |-> FALSE]

IdleFrame == [NewFrame(<<>>, 0, 0) EXCEPT !.pc = "idle"]

(* lines 60-74: one iteration of the loop over the candidates *)
GreedyBody(f) ==
    LET piece == Piece(f.candidates, f.i)
        cand  == JoinNL(f.buff, piece)
    IN  IF piece = EmptyStr
        THEN [f EXCEPT !.i = f.i + 1]
        ELSE IF tokenize_len(cand) <= f.max_tokens
        THEN [f EXCEPT !.buff = cand, !.i = f.i + 1]
        ELSE LET flushed == IF f.buff # EmptyStr
                            THEN Append(f.chunks, f.buff) ELSE f.chunks
             IN  IF tokenize_len(piece) <= f.max_tokens
                 THEN [f EXCEPT !.chunks = flushed, !.buff = piece,
                                !.i = f.i + 1]
                 ELSE [f EXCEPT !.chunks = flushed, !.start = 0,
                                !.pc = "split"]

(* line 76: " ".join(words[start:start+step]) *)
Window(f) ==
    LET c == f.candidates[f.i]
    IN  <<Run(f.i, f.start + 1, Min(f.start + step, c.n), c.w, "none")>>

(* line 78 *)
Advance(f) == step - Max(0, f.overlap \div 3)

(* lines 75-79: one iteration of the hard-split loop, or its exit *)
SplitBody(f) ==
    IF f.start < f.candidates[f.i].n
    THEN [f EXCEPT !.chunks = Append(f.chunks, Window(f)),
                   !.start = f.start + Advance(f)]
    ELSE [f EXCEPT !.buff = EmptyStr, !.i = f.i + 1, !.pc = "greedy"]

(* lines 80-83 *)
FlushBody(f) ==
    [f EXCEPT !.chunks = IF f.buff # EmptyStr
                         THEN Append(f.chunks, f.buff) ELSE f.chunks,
              !.i = 1, !.pc = "merge"]

(* lines 84-94: one iteration of the tail-merge loop *)
MergeBody(f) ==
    LET c == f.chunks[f.i]
    IN  IF f.i = 1
        THEN [f EXCEPT !.final = <<c>>, !.i = 2]
        ELSE LET prev   == f.final[Len(f.final)]
                 tail   == SpaceJoin(LastWords(prev, TailWords))
                 merged == JoinNL(tail, c)
             IN  IF tokenize_len(merged) <= f.max_tokens
                 THEN [f EXCEPT !.final[Len(f.final)] = merged,
                                !.i = f.i + 1]
                 ELSE [f EXCEPT !.final = Append(f.final, c),
                                !.i = f.i + 1]

(* line 95 *)
ReturnBody(f) ==
    [f EXCEPT !.result = IF f.final # <<>> THEN f.final
                         ELSE <<RawPrefix(f.candidates)>>,
              !.fallback = (f.final = <<>>),
              !.pc = "done"]


GreedyStep ==
    /\ ck.pc = "greedy" /\ ck.i <= Len(ck.candidates)
    /\ ck' = GreedyBody(ck)
    /\ UNCHANGED <<bvars, svars, uvars>>

(* a loop whose start does not advance appends the same window for ever;   *)
(* it is followed for MaxChunks chunks                                     *)
HardSplitStep ==
    /\ ck.pc = "split"
    /\ Advance(ck) > 0 \/ Len(ck.chunks) < MaxChunks
    /\ ck' = SplitBody(ck)
    /\ UNCHANGED <<bvars, svars, uvars>>

FlushStep ==
    /\ ck.pc = "greedy" /\ ck.i > Len(ck.candidates)
    /\ ck' = FlushBody(ck)
    /\ UNCHANGED <<bvars, svars, uvars>>

MergeStep ==
    /\ ck.pc = "merge" /\ ck.i <= Len(ck.chunks)
    /\ ck' = MergeBody(ck)
    /\ UNCHANGED <<bvars, svars, uvars>>

ReturnStep ==
    /\ ck.pc = "merge" /\ ck.i > Len(ck.chunks)
    /\ ck' = ReturnBody(ck)
    /\ UNCHANGED <<bvars, svars, uvars>>

(* chunk_text run to its return; defined when the loops terminate *)
StepFrame(f) ==
    CASE f.pc = "greedy" /\ f.i <= Len(f.candidates) -> GreedyBody(f)
      [] f.pc = "greedy" /\ f.i > Len(f.candidates)  -> FlushBody(f)
      [] f.pc = "split"                              -> SplitBody(f)
      [] f.pc = "merge" /\ f.i <= Len(f.chunks)      -> MergeBody(f)
      [] f.pc = "merge" /\ f.i > Len(f.chunks)       -> ReturnBody(f)

RECURSIVE RunFrame(_)
RunFrame(f) == IF f.pc = "done" THEN f ELSE RunFrame(StepFrame(f))

chunk_text(text, max_tokens, overlap) ==
    RunFrame(NewFrame(text, max_tokens, overlap)).result

(***************************************************************************)
(* The embedding service and rag_core.embed_texts                          *)
(***************************************************************************)
B == 64

(* the vector the service returns for a string *)
Embedding(t) == [of |-> t]

(* client.embeddings.create(input = batch): one vector per input, in order *)
ServiceEmbed(batch) == [k \in 1..Len(batch) |-> Embedding(batch[k])]

(* lines 120-122: the batches texts[i:i+B] for i = 0, B, 2B, ... *)
RECURSIVE EmbedFrom(_, _)
EmbedFrom(texts, i) ==
    IF i >= Len(texts) THEN <<>>
    ELSE ServiceEmbed(SubSeq(texts, i + 1, Min(i + B, Len(texts))))
         \o EmbedFrom(texts, i + B)

embed_texts(texts) == EmbedFrom(texts, 0)

(***************************************************************************)
(* ingest.run_ingest                                                       *)
(*                                                                         *)
(* A page text is its list of candidate pieces; EmptyText is "".  The      *)
(* title, year and facets of a document are values copied into each of its *)
(* records and are left out of the build's records.                        *)
(***************************************************************************)
MaxDocs == 2

EmptyText == <<>>
BlankText == <<[n |-> 0, w |-> 1], [n |-> 0, w |-> 1]>>
ShortText == <<[n |-> 3, w |-> 1]>>
LongText  == <<[n |-> 200, w |-> 4], [n |-> 200, w |-> 4]>>

IsBlank(text) == \A k \in 1..Len(text) : text[k].n = 0

Docs ==
    { [path |-> "X.pdf", pages |-> <<ShortText, EmptyText>>],
      [path |-> "Y.pdf", pages |-> <<BlankText, LongText>>],
      [path |-> "Z.pdf", pages |-> <<EmptyText>>],
      [path |-> "W.pdf", pages |-> <<BlankText, EmptyText>>] }

(* os.listdir: the documents of the directory, in some order *)
Listings ==
    { s \in UNION { [1..k -> Docs] : k \in 0..MaxDocs } :
        \A a, b \in 1..Len(s) : a # b => s[a] # s[b] }

(* lines 66-77 *)
NewRecord(cursor, doc, page_no, ch) ==
    [id |-> cursor, doc_path |-> doc.path, page_start |-> page_no,
     page_end |-> page_no, text |-> ch]

(* PageRecords taking the id from the cursor as it was when the page began *)
PageRecordsStaleCursor(cursor, doc, page_no) ==
    LET page_txt == doc.pages[page_no]
    IN  IF IsBlank(page_txt) THEN <<>>
        ELSE LET chunks == chunk_text(page_txt, CHUNK_TOKENS, CHUNK_OVERLAP)
             IN  [k \in 1..Len(chunks) |->
                     NewRecord(cursor, doc, page_no, chunks[k])]

(* lines 61-80: the records of one page, the first one with id = cursor *)
PageRecords(cursor, doc, page_no) ==
    LET page_txt == doc.pages[page_no]
    IN  IF IsBlank(page_txt) THEN <<>>
        ELSE LET chunks == chunk_text(page_txt, CHUNK_TOKENS, CHUNK_OVERLAP)
             IN  [k \in 1..Len(chunks) |->
                     NewRecord(cursor + k - 1, doc, page_no, chunks[k])]

(* lines 61-80: the loop over the pages of a document, from page_no on *)
RECURSIVE DocRecords(_, _, _)
DocRecords(cursor, doc, page_no) ==
    IF page_no > Len(doc.pages) THEN <<>>
    ELSE LET recs == PageRecords(cursor, doc, page_no)
         IN  recs \o DocRecords(cursor + Len(recs), doc, page_no + 1)

(* line 51: any(t for _, t in pages) *)
HasText(doc) == \E k \in 1..Len(doc.pages) : doc.pages[k] # EmptyText

(* the files of the serving location *)
NoFile == [exists |-> FALSE, build |-> 0, complete |-> TRUE, content |-> <<>>]

File(build, content, complete) ==
    [exists |-> TRUE, build |-> build, complete |-> complete,
     content |-> content]

JsonLine(r) == [json |-> TRUE, rec |-> r]
TornLine == [json |-> FALSE]
(* a line cut inside a multi-byte character (the records are written with  *)
(* ensure_ascii=False): bytes that are not UTF-8                           *)
BadBytesLine == [json |-> FALSE, utf8 |-> FALSE]

(* the serving location before the run: empty, the pair of an earlier      *)
(* build, or that pair with the line of its first record damaged           *)
PrevRecords == DocRecords(0, [path |-> "P.pdf", pages |-> <<LongText>>], 1)
PrevVectors == embed_texts([k \in 1..Len(PrevRecords) |-> PrevRecords[k].text])
PrevLines == [k \in 1..Len(PrevRecords) |-> JsonLine(PrevRecords[k])]

PrevFiles ==
    { [idx |-> NoFile, meta |-> NoFile],
      [idx |-> File(0, PrevVectors, TRUE), meta |-> File(0, PrevLines, TRUE)],
      [idx |-> File(0, PrevVectors, TRUE),
       meta |-> File(0, <<TornLine>> \o Tail(PrevLines), TRUE)],
      [idx |-> File(0, PrevVectors, TRUE),
       meta |-> File(0, <<PrevLines[1], BadBytesLine>>, TRUE)] }

NoIndex == [loaded |-> FALSE]
IdleIngest == [pc |-> "idle"]
IdleLoad == [pc |-> "idle"]
NoRequest == [endpoint |-> "none"]
NoResponse == [status |-> "none"]
NoCalls == [embed |-> 0, search |-> <<>>]

BuildInit ==
    /\ \E prev \in PrevFiles : idxFile = prev.idx /\ metaFile = prev.meta
    /\ \E pdfs \in Listings :
         ing = [pc |-> "list", pdfs |-> pdfs, d |-> 1, records |-> <<>>,
                texts_for_embed |-> <<>>, cursor |-> 0, embs |-> <<>>, w |-> 1]
    /\ ld = IdleLoad
    /\ index = NoIndex /\ meta = <<>>
    /\ req = NoRequest /\ resp = NoResponse /\ calls = NoCalls
    /\ ck = IdleFrame
    /\ tg = IdleTag /\ emb = IdleEmbed

(* lines 39-42 *)
ListPdfs ==
    /\ ing.pc = "list"
    /\ ing' = [ing EXCEPT !.pc = IF ing.pdfs = <<>> THEN "returned" ELSE "docs"]
    /\ UNCHANGED <<idxFile, metaFile, ld, cvars, svars, uvars>>

(* lines 49-80: one iteration of the loop over the documents *)
IngestDoc ==
    /\ ing.pc = "docs" /\ ing.d <= Len(ing.pdfs)
    /\ LET doc  == ing.pdfs[ing.d]
           recs == IF HasText(doc) THEN DocRecords(ing.cursor, doc, 1)
                   ELSE <<>>
       IN  ing' = [ing EXCEPT
                     !.records = ing.records \o recs,
                     !.texts_for_embed =
                         ing.texts_for_embed
                         \o [k \in 1..Len(recs) |-> recs[k].text],
                     !.cursor = ing.cursor + Len(recs),
                     !.d = ing.d + 1]
    /\ UNCHANGED <<idxFile, metaFile, ld, cvars, svars, uvars>>

(* lines 82-84 *)
CheckRecords ==
    /\ ing.pc = "docs" /\ ing.d > Len(ing.pdfs)
    /\ ing' = [ing EXCEPT
                 !.pc = IF ing.records = <<>> THEN "returned" ELSE "embed"]
    /\ UNCHANGED <<idxFile, metaFile, ld, cvars, svars, uvars>>

(* lines 87-91: the vectors, normalised and added in order to a new index *)
EmbedAll ==
    /\ ing.pc = "embed"
    /\ \/ ing' = [ing EXCEPT !.embs = embed_texts(ing.texts_for_embed),
                             !.pc = "write_index"]
       \/ ing' = [ing EXCEPT !.pc = "failed"]   \* the service raised
    /\ UNCHANGED <<idxFile, metaFile, ld, cvars, svars, uvars>>

(* line 94: faiss.write_index creates the file at FAISS_PATH and fills it *)
WriteIndexBegin ==
    /\ ing.pc = "write_index"
    /\ idxFile' = File(1, <<>>, FALSE)
    /\ ing' = [ing EXCEPT !.pc = "writing_index"]
    /\ UNCHANGED <<metaFile, ld, cvars, svars, uvars>>

WriteIndexEnd ==
    /\ ing.pc = "writing_index"
    /\ idxFile' = File(1, ing.embs, TRUE)
    /\ ing' = [ing EXCEPT !.pc = "open_meta"]
    /\ UNCHANGED <<metaFile, ld, cvars, svars, uvars>>

(* line 97: open(META_PATH, "w") truncates the file *)
OpenMeta ==
    /\ ing.pc = "open_meta"
    /\ metaFile' = File(1, <<>>, FALSE)
    /\ ing' = [ing EXCEPT !.pc = "write_meta", !.w = 1]
    /\ UNCHANGED <<idxFile, ld, cvars, svars, uvars>>

(* lines 98-99: one record per line, in the order of records *)
WriteMetaLine ==
    /\ ing.pc = "write_meta" /\ ing.w <= Len(ing.records)
    /\ metaFile' = [metaFile EXCEPT
                      !.content = Append(@, JsonLine(ing.records[ing.w]))]
    /\ ing' = [ing EXCEPT !.w = ing.w + 1]
    /\ UNCHANGED <<idxFile, ld, cvars, svars, uvars>>

(* the end of the with block closes the file; line 101 *)
CloseMeta ==
    /\ ing.pc = "write_meta" /\ ing.w > Len(ing.records)
    /\ metaFile' = [metaFile EXCEPT !.complete = TRUE]
    /\ ing' = [ing EXCEPT !.pc = "done"]
    /\ UNCHANGED <<idxFile, ld, cvars, svars, uvars>>

(* the process is killed, or a write raises: the files stay as they are,   *)
(* and a line being written stays torn                                     *)
Interrupt ==
    /\ ing.pc \in {"docs", "embed", "write_index", "writing_index",
                   "open_meta", "write_meta"}
    /\ ing' = [ing EXCEPT !.pc = "interrupted"]
    /\ \/ UNCHANGED metaFile
       \/ /\ ing.pc = "write_meta" /\ ing.w <= Len(ing.records)
          /\ \E torn \in {TornLine, BadBytesLine} :
               metaFile' = [metaFile EXCEPT !.content = Append(@, torn)]
    /\ UNCHANGED <<idxFile, ld, cvars, svars, uvars>>


(***************************************************************************)
(* app._load_index_and_meta, run at the start of the serving process       *)
(***************************************************************************)
BootConfigs ==
    { [BOOT_MODE |-> "light", faiss |-> TRUE],
      [BOOT_MODE |-> "full", faiss |-> TRUE],
      [BOOT_MODE |-> "full", faiss |-> FALSE] }

(* lines 95-99: json.loads of each line; a line that raises is skipped *)
RECURSIVE ParseLines(_)
ParseLines(lines) ==
    IF lines = <<>> THEN <<>>
    ELSE IF lines[1].json
         THEN <<lines[1].rec>> \o ParseLines(Tail(lines))
         ELSE ParseLines(Tail(lines))

(* lines 92-99, every line decoded *)
LoadedMeta(file) == IF file.exists THEN ParseLines(file.content) ELSE <<>>

(* lines 102-108: read_index raises on a file that is not a whole index *)
LoadedIndex(cfg, file) ==
    IF cfg.BOOT_MODE # "light" /\ cfg.faiss /\ file.exists /\ file.complete
    THEN [loaded |-> TRUE, vecs |-> file.content]
    ELSE NoIndex

(* the position of the first line that cannot be decoded, 0 if none *)
FirstUndecodable(lines) ==
    IF \E k \in 1..Len(lines) : lines[k] = BadBytesLine
    THEN CHOOSE k \in 1..Len(lines) :
             /\ lines[k] = BadBytesLine
             /\ \A j \in 1..(k - 1) : lines[j] # BadBytesLine
    ELSE 0

(* lines 92-99.  `for line in f` decodes the file block by block outside   *)
(* the try: on bytes that are not UTF-8 it raises UnicodeDecodeError after *)
(* some of the lines before them were loaded.  read keeps the lines of the *)
(* file at the time of the load.                                           *)
LoadMeta ==
    /\ ld.pc = "idle"
    /\ \E cfg \in BootConfigs :
         LET bad == FirstUndecodable(metaFile.content)
         IN  IF metaFile.exists /\ bad > 0
             THEN /\ ld' = [pc |-> "raised", BOOT_MODE |-> cfg.BOOT_MODE,
                            faiss |-> cfg.faiss, read |-> metaFile.content]
                  /\ \E n \in 0..(bad - 1) :
                       meta' = ParseLines(SubSeq(metaFile.content, 1, n))
             ELSE /\ ld' = [pc |-> "meta_loaded", BOOT_MODE |-> cfg.BOOT_MODE,
                            faiss |-> cfg.faiss, read |-> metaFile.content]
                  /\ meta' = LoadedMeta(metaFile)
    /\ UNCHANGED <<idxFile, metaFile, ing, index, req, resp, calls, cvars, uvars>>

LoadIndex ==
    /\ ld.pc = "meta_loaded"
    /\ index' = LoadedIndex(ld, idxFile)
    /\ ld' = [ld EXCEPT !.pc = "loaded"]
    /\ UNCHANGED <<idxFile, metaFile, ing, meta, req, resp, calls, cvars, uvars>>

(* lines 208-209: the lifespan of the app entered again in the process,   *)
(* with the globals index and meta as the last load left them              *)
Relaunch ==
    /\ ld.pc = "loaded"
    /\ ld' = IdleLoad
    /\ UNCHANGED <<idxFile, metaFile, ing, index, meta, req, resp, calls,
                   cvars, uvars>>

BuildNext ==
    \/ ListPdfs \/ IngestDoc \/ CheckRecords \/ EmbedAll
    \/ WriteIndexBegin \/ WriteIndexEnd \/ OpenMeta \/ WriteMetaLine
    \/ CloseMeta \/ Interrupt \/ LoadMeta \/ LoadIndex \/ Relaunch

SpecBuild == BuildInit /\ [][BuildNext]_vars

ChunkNext ==
    GreedyStep \/ HardSplitStep \/ FlushStep \/ MergeStep \/ ReturnStep

ChunkInit ==
    /\ \E text \in Texts, T \in Budgets, ov \in Overlaps :
         ck = NewFrame(text, T, ov)
    /\ idxFile = NoFile /\ metaFile = NoFile
    /\ ing = IdleIngest /\ ld = IdleLoad
    /\ index = NoIndex /\ meta = <<>>
    /\ req = NoRequest /\ resp = NoResponse /\ calls = NoCalls
    /\ tg = IdleTag /\ emb = IdleEmbed

SpecChunk == ChunkInit /\ [][ChunkNext]_vars

(* chunk_text is one sequential call: a step that can be taken is taken *)
SpecChunkLive == SpecChunk /\ WF_vars(ChunkNext)


(***************************************************************************)
(* The serving state and its inputs.                                       *)
(*                                                                         *)
(* A text of the serving model is [name, len]: its identity and its length *)
(* in characters.  A question is [name, frags, sim]: frags is the set of   *)
(* fragments written in the question, and sim gives the inner product of   *)
(* the question's vector with the vector of each text, in units of 0.01.   *)
(* None is Python's None.                                                  *)
(***************************************************************************)
MaxRows == 3

None == "None"

(* the truth value Python gives an Optional[str] *)
Truthy(v) == v # None /\ v # ""

Text(name, len) == [name |-> name, len |-> len]

(* text[:n] *)
Prefix(text, n) == [text EXCEPT !.len = Min(text.len, n)]

RowShapes ==
    { [doc_path |-> "X.pdf", doc_title |-> "TX", year |-> "2020",
       page_start |-> 1, page_end |-> 1, organism |-> "rodent",
       stressor |-> "microgravity", platform |-> "ISS",
       text |-> Text("a", 1000)],
      [doc_path |-> "X.pdf", doc_title |-> "TX", year |-> "2020",
       page_start |-> 1, page_end |-> 1, organism |-> None,
       stressor |-> None, platform |-> None,
       text |-> Text("b", 300)],
      [doc_path |-> "Y.pdf", doc_title |-> "TY", year |-> None,
       page_start |-> 2, page_end |-> 2, organism |-> "human",
       stressor |-> "microgravity", platform |-> None,
       text |-> Text("c", 500)],
      [doc_path |-> "X.pdf", doc_title |-> "TX", year |-> "2020",
       page_start |-> 2, page_end |-> 2, organism |-> "rodent",
       stressor |-> "radiation", platform |-> "ISS",
       text |-> Text("d", 801)] }

(* r | {"id": i} *)
WithId(r, i) ==
    [k \in DOMAIN r \cup {"id"} |-> IF k = "id" THEN i ELSE r[k]]

(* the records of a build: distinct chunks, the record at position i with  *)
(* id = i                                                                  *)
Corpora ==
    { [k \in 1..Len(s) |-> WithId(s[k], k - 1)] :
        s \in { t \in UNION { [1..n -> RowShapes] : n \in 0..MaxRows } :
                  \A a, b \in 1..Len(t) : a # b => t[a] # t[b] } }

IndexOf(rows) ==
    [loaded |-> TRUE, vecs |-> [k \in 1..Len(rows) |-> Embedding(rows[k].text)]]

Front(s) == SubSeq(s, 1, Len(s) - 1)

(* the states the start-up load can leave: no index; index and metadata of *)
(* one build; an index of fewer vectors than the metadata has records; a   *)
(* metadata sequence that lost the line of its first record                *)
ServeStates ==
    { [index |-> NoIndex, meta |-> c] : c \in Corpora }
    \cup { [index |-> IndexOf(c), meta |-> c] : c \in Corpora }
    \cup { [index |-> IndexOf(Front(c)), meta |-> c] : c \in Corpora \ {<<>>} }
    \cup { [index |-> IndexOf(c), meta |-> Tail(c)] : c \in Corpora \ {<<>>} }

Questions ==
    { [name |-> "q1", frags |-> {},
       sim |-> [a |-> 60, b |-> 55, c |-> 55, d |-> 50]],
      [name |-> "q2", frags |-> {"Mouse", "microgravity", "ISS"},
       sim |-> [a |-> 50, b |-> 55, c |-> 55, d |-> 60]],
      [name |-> "q3", frags |-> {"rats", "human", "radiation"},
       sim |-> [a |-> 55, b |-> 60, c |-> 50, d |-> 50]] }

NoQuestion == [name |-> None, frags |-> {}, sim |-> [a |-> 0, b |-> 0, c |-> 0, d |-> 0]]

TopKs == {0 - 1, 0, 1, 2, 8}

Filters ==
    { [organism |-> None, stressor |-> None, platform |-> None],
      [organism |-> "", stressor |-> None, platform |-> None],
      [organism |-> "rodent", stressor |-> None, platform |-> None],
      [organism |-> None, stressor |-> "microgravity", platform |-> None],
      [organism |-> None, stressor |-> None, platform |-> "ISS"] }

NoFilter == [organism |-> None, stressor |-> None, platform |-> None]

(* paths: Optional[List[str]] *)
NoPaths == [none |-> TRUE, list |-> <<>>]
Paths(list) == [none |-> FALSE, list |-> list]

Allowlists ==
    { NoPaths, Paths(<<>>), Paths(<<"X.pdf">>), Paths(<<"Y.pdf", "Z.pdf">>) }

(***************************************************************************)
(* The vector index: exact inner-product search                            *)
(***************************************************************************)
PadId == 0 - 1
PadScore == 0 - 1000000

InnerProduct(q_emb, v) == q_emb.of.sim[v.of.name]

(* the ordinals of S by descending inner product, the lower ordinal first  *)
(* among equals                                                            *)
RECURSIVE Ranked(_, _)
Ranked(q_emb, S) ==
    IF S = {} THEN <<>>
    ELSE LET sc(i) == InnerProduct(q_emb, index.vecs[i + 1])
             best == CHOOSE i \in S :
                        \A j \in S : sc(i) > sc(j) \/ (sc(i) = sc(j) /\ i <= j)
         IN  <<best>> \o Ranked(q_emb, S \ {best})

(* index.search(q, k): k hits, the nearest first, padded with the id -1    *)
(* when the index holds fewer than k vectors                               *)
IndexSearch(q_emb, k) ==
    LET n == Len(index.vecs)
        ranked == Ranked(q_emb, 0..(n - 1))
        found == [j \in 1..Min(k, n) |->
                    [id |-> ranked[j],
                     score |-> InnerProduct(q_emb, index.vecs[ranked[j] + 1])]]
    IN  found \o [j \in 1..(k - Min(k, n)) |->
                    [id |-> PadId, score |-> PadScore]]

(* _search_vectors: raises without an index, and faiss refuses k < 1 *)
SearchRaises(k) == ~index.loaded \/ k < 1

max_k(top_k) == Max(30, top_k * 4)

(* meta[i] with Python's indexing: a negative i counts from the end *)
InRange(i) == (i >= 0 /\ i < Len(meta)) \/ (i < 0 /\ 0 - i <= Len(meta))
MetaAt(i) == IF i >= 0 THEN meta[i + 1] ELSE meta[Len(meta) + i + 1]

(* r | {"score": s} *)
Scored(r, s) ==
    [k \in DOMAIN r \cup {"score"} |-> IF k = "score" THEN s ELSE r[k]]

HasScore(r) == "score" \in DOMAIN r

(* [meta[i] | {"score": float(scores[j])} for j, i in enumerate(ids)] *)
HitRows(hits) == [j \in 1..Len(hits) |-> Scored(MetaAt(hits[j].id), hits[j].score)]
HitsInRange(hits) == \A j \in 1..Len(hits) : InRange(hits[j].id)

(* _apply_filters letting a row without a facet through every filter *)
_apply_filters_null_passes(rows, organism, stressor, platform) ==
    LET ok(r) ==
            /\ ~(Truthy(organism) /\ r.organism # None
                  /\ r.organism # organism)
            /\ ~(Truthy(stressor) /\ r.stressor # None
                  /\ r.stressor # stressor)
            /\ ~(Truthy(platform) /\ r.platform # None
                  /\ r.platform # platform)
    IN  SelectSeq(rows, ok)

(* app._apply_filters *)
_apply_filters(rows, organism, stressor, platform) ==
    LET ok(r) ==
            /\ ~(Truthy(organism) /\ r.organism # organism)
            /\ ~(Truthy(stressor) /\ r.stressor # stressor)
            /\ ~(Truthy(platform) /\ r.platform # platform)
    IN  SelectSeq(rows, ok)

RowKey(r) == <<r.doc_path, r.page_start>>

(* a dedupe loop that keeps the last row of each key instead of the first *)
RECURSIVE DedupeKeepsLast(_, _, _, _, _)
DedupeKeepsLast(rows, i, seen, selected, top_k) ==
    IF i > Len(rows) THEN selected
    ELSE LET r == rows[i]
             later == \E j \in (i + 1)..Len(rows) : RowKey(rows[j]) = RowKey(r)
         IN  IF later
             THEN DedupeKeepsLast(rows, i + 1, seen, selected, top_k)
             ELSE IF Len(selected) + 1 >= top_k
                  THEN Append(selected, r)
                  ELSE DedupeKeepsLast(rows, i + 1, seen,
                                       Append(selected, r), top_k)

(* the loop of ask, ask_simple and _pick_context: keep a row whose key was *)
(* not seen, and stop once top_k rows are kept                             *)
RECURSIVE DedupeFrom(_, _, _, _, _)
DedupeFrom(rows, i, seen, selected, top_k) ==
    IF i > Len(rows) THEN selected
    ELSE LET r == rows[i]
         IN  IF RowKey(r) \in seen
             THEN DedupeFrom(rows, i + 1, seen, selected, top_k)
             ELSE IF Len(selected) + 1 >= top_k
                  THEN Append(selected, r)
                  ELSE DedupeFrom(rows, i + 1, seen \cup {RowKey(r)},
                                  Append(selected, r), top_k)

Dedupe(rows, top_k) == DedupeFrom(rows, 1, {}, <<>>, top_k)

(* rows[:k] *)
PySlice(rows, k) ==
    IF k >= 0 THEN SubSeq(rows, 1, Min(k, Len(rows)))
    ELSE SubSeq(rows, 1, Max(0, Len(rows) + k))


(***************************************************************************)
(* The facet vocabularies and app._guess_from_text                         *)
(***************************************************************************)
ORGANISMS ==
    << [key |-> "rodent",
        terms |-> <<"mouse", "mice", "rat", "rats", "murine", "rodent">>],
       [key |-> "drosophila",
        terms |-> <<"drosophila", "fruit fly", "fruit flies">>],
       [key |-> "arabidopsis",
        terms |-> <<"arabidopsis", "a. thaliana", "thaliana">>],
       [key |-> "human",
        terms |-> <<"human", "astronaut", "crew member", "crew">>],
       [key |-> "yeast", terms |-> <<"yeast", "s. cerevisiae", "cerevisiae">>],
       [key |-> "zebrafish", terms |-> <<"zebrafish", "danio rerio">>] >>

STRESSORS ==
    << [key |-> "microgravity",
        terms |-> <<"microgravity", "spaceflight", "space flight", "0 g",
                    "ug", "weightlessness">>],
       [key |-> "radiation",
        terms |-> <<"radiation", "cosmic ray", "galactic cosmic", "GCR",
                    "ionizing">>],
       [key |-> "launch/landing",
        terms |-> <<"launch", "landing", "re-entry", "reentry", "ascent",
                    "descent">>],
       [key |-> "isolation", terms |-> <<"isolation", "confinement">>],
       [key |-> "partial-g",
        terms |-> <<"lunar gravity", "martian gravity", "1/6 g", "3/8 g",
                    "partial gravity">>] >>

PLATFORMS ==
    << [key |-> "ISS", terms |-> <<"iss", "international space station">>],
       [key |-> "Shuttle", terms |-> <<"space shuttle", "sts-">>],
       [key |-> "Ground Analog",
        terms |-> <<"hindlimb unloading", "bed rest", "clinostat",
                    "random positioning machine", "rpm">>] >>

(* A text handed to the tagger is the set of the fragments written in it.  *)
(* str.lower() of a fragment: the fragments written with capitals, each    *)
(* with its lower-case spelling; every other fragment is in lower case.    *)
Capitals ==
    { <<"GCR", "gcr">>, <<"Gcr", "gcr">>, <<"Mouse", "mouse">>,
      <<"ISS", "iss">>, <<"Radiation", "radiation">> }

lower(f) ==
    IF \E c \in Capitals : c[1] = f
    THEN (CHOOSE c \in Capitals : c[1] = f)[2]
    ELSE f

(* t.lower() *)
lower_text(t) == { lower(f) : f \in t }

(* the pairs <<w, f>> of distinct strings of the model with w inside f *)
Substrings ==
    { <<"rat", "rats">>, <<"crew", "crew member">>,
      <<"thaliana", "a. thaliana">>, <<"cerevisiae", "s. cerevisiae">>,
      <<"iss", "mission">>, <<"rat", "demonstrate">> }

(* w in f, for two strings *)
Within(w, f) == w = f \/ <<w, f>> \in Substrings

(* w in low, for a term and a text *)
Occurs(w, low) == \E f \in low : Within(w, f)

(* sum(1 for t in terms if t in low) *)
RECURSIVE CountIn(_, _)
CountIn(terms, low) ==
    IF terms = <<>> THEN 0
    ELSE (IF Occurs(terms[1], low) THEN 1 ELSE 0) + CountIn(Tail(terms), low)

(* lines 141-144: the loop over the vocabulary, in its order *)
RECURSIVE GuessFrom(_, _, _, _, _)
GuessFrom(low, vocab, i, best, score) ==
    IF i > Len(vocab) THEN best
    ELSE LET s == CountIn(vocab[i].terms, low)
         IN  IF s > score
             THEN GuessFrom(low, vocab, i + 1, vocab[i].key, s)
             ELSE GuessFrom(low, vocab, i + 1, best, score)

(* line 139: low = (txt or "").lower() *)
_guess_from_text(txt, vocab) ==
    GuessFrom(lower_text(txt.frags), vocab, 1, None, 0)

(***************************************************************************)
(* rag_core.tag_text, one iteration of its loop per step, followed by the  *)
(* call of app._guess_from_text on the same text and vocabulary.           *)
(***************************************************************************)
MaxFrags == 3

(* the fragments a text is written with *)
Fragments ==
    { "mouse", "Mouse", "rats", "human", "crew member", "GCR", "gcr",
      "ionizing", "isolation", "confinement", "microgravity", "ISS",
      "mission", "sts-", "bed rest", "rpm" }

TagTexts == { t \in SUBSET Fragments : Cardinality(t) <= MaxFrags }

Vocabularies == { ORGANISMS, STRESSORS, PLATFORMS }

(* lines 107-108: low = t.lower(); best, score = None, 0.  counts keeps    *)
(* the value of s of each iteration.                                       *)
NewTag(t, vocab) ==
    [pc |-> "scan", t |-> t, vocab |-> vocab, low |-> lower_text(t),
     i |-> 1, best |-> None, score |-> 0, counts |-> <<>>,
     result |-> None, guess |-> None]

(* a loop body that lets a later label of equal count replace the best *)
TagBodyLastWins(f) ==
    LET s == CountIn(f.vocab[f.i].terms, f.low)
        better == s >= f.score /\ s > 0
    IN  [f EXCEPT !.i = @ + 1, !.counts = Append(@, s),
                  !.best = IF better THEN f.vocab[f.i].key ELSE @,
                  !.score = IF better THEN s ELSE @]

(* lines 109-112: one iteration over vocab.items() *)
TagBody(f) ==
    LET s == CountIn(f.vocab[f.i].terms, f.low)
    IN  [f EXCEPT !.i = @ + 1, !.counts = Append(@, s),
                  !.best = IF s > f.score THEN f.vocab[f.i].key ELSE @,
                  !.score = IF s > f.score THEN s ELSE @]

TagScan ==
    /\ tg.pc = "scan" /\ tg.i <= Len(tg.vocab)
    /\ tg' = TagBody(tg)
    /\ UNCHANGED <<cvars, bvars, svars, emb>>

(* line 113: return best *)
TagReturn ==
    /\ tg.pc = "scan" /\ tg.i > Len(tg.vocab)
    /\ tg' = [tg EXCEPT !.pc = "tagged", !.result = tg.best]
    /\ UNCHANGED <<cvars, bvars, svars, emb>>

(* _guess_from_text(t, vocab) *)
GuessText ==
    /\ tg.pc = "tagged"
    /\ tg' = [tg EXCEPT !.pc = "done",
                        !.guess = _guess_from_text([frags |-> tg.t], tg.vocab)]
    /\ UNCHANGED <<cvars, bvars, svars, emb>>

TagInit ==
    /\ \E t \in TagTexts, vocab \in Vocabularies : tg = NewTag(t, vocab)
    /\ emb = IdleEmbed
    /\ ck = IdleFrame
    /\ idxFile = NoFile /\ metaFile = NoFile
    /\ ing = IdleIngest /\ ld = IdleLoad
    /\ index = NoIndex /\ meta = <<>>
    /\ req = NoRequest /\ resp = NoResponse /\ calls = NoCalls

TagNext == TagScan \/ TagReturn \/ GuessText

SpecTag == TagInit /\ [][TagNext]_vars

(***************************************************************************)
(* rag_core.embed_texts, one request to the embedding service per step.    *)
(*                                                                         *)
(* The input strings are 1..n.  The service answers a request with one     *)
(* vector per input in order ("ok"), raises ("fail"), or answers with a    *)
(* vector too few ("short") or one too many ("long").  requests keeps the  *)
(* slices sent, as <<first, last>> positions of the input, and replies     *)
(* what the service did with each.                                         *)
(***************************************************************************)
MaxTexts == 130

TextLists == { [k \in 1..n |-> k] : n \in 0..MaxTexts }

Replies == {"ok", "fail", "short", "long"}

(* lines 117-119: client = get_client(); out = []; B = 64 *)
NewEmbed(texts) ==
    [pc |-> "loop", texts |-> texts, i |-> 0, out |-> <<>>,
     requests |-> <<>>, replies |-> <<>>]

(* a slice that runs one string into the next batch *)
BatchOverlapping(texts, i) == SubSeq(texts, i + 1, Min(i + B + 1, Len(texts)))

(* line 121: texts[i:i+B] *)
Batch(texts, i) == SubSeq(texts, i + 1, Min(i + B, Len(texts)))

(* resp.data of a reply that does not raise *)
ReplyData(batch, kind) ==
    CASE kind = "ok" -> ServiceEmbed(batch)
      [] kind = "short" -> SubSeq(ServiceEmbed(batch), 1, Len(batch) - 1)
      [] kind = "long" -> Append(ServiceEmbed(batch), Embedding(0))

(* lines 120-122: one iteration of the loop over range(0, len(texts), B) *)
EmbedBody(f, kind) ==
    LET batch == Batch(f.texts, f.i)
        sent == [f EXCEPT !.requests = Append(@, <<f.i + 1, f.i + Len(batch)>>),
                          !.replies = Append(@, kind)]
    IN  IF kind = "fail"
        THEN [sent EXCEPT !.pc = "raised"]
        ELSE [sent EXCEPT !.out = @ \o ReplyData(batch, kind),
                          !.i = @ + B]

EmbedBatch ==
    /\ emb.pc = "loop" /\ emb.i < Len(emb.texts)
    /\ \E kind \in Replies : emb' = EmbedBody(emb, kind)
    /\ UNCHANGED <<cvars, bvars, svars, tg>>

(* line 123: return np.array(out, dtype="float32") *)
EmbedReturn ==
    /\ emb.pc = "loop" /\ emb.i >= Len(emb.texts)
    /\ emb' = [emb EXCEPT !.pc = "returned"]
    /\ UNCHANGED <<cvars, bvars, svars, tg>>

EmbedInit ==
    /\ \E texts \in TextLists : emb = NewEmbed(texts)
    /\ tg = IdleTag
    /\ ck = IdleFrame
    /\ idxFile = NoFile /\ metaFile = NoFile
    /\ ing = IdleIngest /\ ld = IdleLoad
    /\ index = NoIndex /\ meta = <<>>
    /\ req = NoRequest /\ resp = NoResponse /\ calls = NoCalls

EmbedNext == EmbedBatch \/ EmbedReturn

SpecEmbed == EmbedInit /\ [][EmbedNext]_vars

(***************************************************************************)
(* The rerank of ask_simple                                                *)
(***************************************************************************)
BonusStep == 5

(* lines 514-519 *)
bonus(q_guess, r) ==
    (IF q_guess.organism # None /\ r.organism = q_guess.organism
     THEN BonusStep ELSE 0)
    + (IF q_guess.stressor # None /\ r.stressor = q_guess.stressor
       THEN BonusStep ELSE 0)
    + (IF q_guess.platform # None /\ r.platform = q_guess.platform
       THEN BonusStep ELSE 0)

Adjusted(q_guess, r) == r.score + bonus(q_guess, r)

(* InsertDesc putting r before the rows of equal key: a sort that is not   *)
(* stable                                                                  *)
RECURSIVE InsertDescUnstable(_, _, _)
InsertDescUnstable(q_guess, sorted, r) ==
    IF sorted = <<>> THEN <<r>>
    ELSE IF Adjusted(q_guess, sorted[1]) > Adjusted(q_guess, r)
         THEN <<sorted[1]>> \o InsertDescUnstable(q_guess, Tail(sorted), r)
         ELSE <<r>> \o sorted

(* where list.sort(reverse=True) puts r among rows already sorted: after   *)
(* every row whose key is not below its own                                *)
RECURSIVE InsertDesc(_, _, _)
InsertDesc(q_guess, sorted, r) ==
    IF sorted = <<>> THEN <<r>>
    ELSE IF Adjusted(q_guess, sorted[1]) >= Adjusted(q_guess, r)
         THEN <<sorted[1]>> \o InsertDesc(q_guess, Tail(sorted), r)
         ELSE <<r>> \o sorted

(* line 520: rows.sort(key=lambda r: r["score"] + bonus(r), reverse=True) *)
RECURSIVE SortFrom(_, _, _, _)
SortFrom(q_guess, rows, i, sorted) ==
    IF i > Len(rows) THEN sorted
    ELSE SortFrom(q_guess, rows, i + 1, InsertDesc(q_guess, sorted, rows[i]))

SortByAdjusted(q_guess, rows) == SortFrom(q_guess, rows, 1, <<>>)

(***************************************************************************)
(* The shapes the handlers return                                          *)
(***************************************************************************)
OrEmpty(v) == IF v = None THEN "" ELSE v

(* app._row_to_result *)
_row_to_result(r) ==
    [title |-> OrEmpty(r.doc_title), year |-> r.year, page |-> r.page_start,
     snippet |-> IF r.text.len > 400
                 THEN [text |-> Prefix(r.text, 400), ellipsis |-> TRUE]
                 ELSE [text |-> r.text, ellipsis |-> FALSE],
     path |-> OrEmpty(r.doc_path), organism |-> r.organism,
     stressor |-> r.stressor, platform |-> r.platform]

(* lines 194-201 *)
ContextEntry(r) ==
    [title |-> OrEmpty(r.doc_title), year |-> r.year, page |-> r.page_start,
     path |-> OrEmpty(r.doc_path), snippet |-> Prefix(r.text, 800)]

(* lines 486-495 *)
SourceEntry(r) ==
    [title |-> r.doc_title, year |-> r.year, page |-> r.page_start,
     path |-> r.doc_path, organism |-> r.organism, stressor |-> r.stressor,
     platform |-> r.platform, score |-> r.score]

Render(rows, Shape(_)) == [k \in 1..Len(rows) |-> Shape(rows[k])]

(* a response: rows are the rows the handler selected, results what it     *)
(* returns for them                                                        *)
Ok(rows, results) == [status |-> "ok", rows |-> rows, results |-> results]
Failure(code) == [status |-> "error", code |-> code]

(* build_prompt numbering its sources list from 0 *)
build_prompt_from_zero(question, contexts) ==
    [question |-> question,
     context_block |->
         [k \in 1..Len(contexts) |->
             [label |-> k, title |-> contexts[k].doc_title,
              page |-> contexts[k].page_start, text |-> contexts[k].text]],
     sources_list |->
         [k \in 1..Len(contexts) |->
             [label |-> k - 1, title |-> contexts[k].doc_title,
              year |-> contexts[k].year, page |-> contexts[k].page_start,
              file |-> contexts[k].doc_path]]]

(* rag_core.build_prompt, lines 138-146 and 179-184: the user message as   *)
(* its question, its context blocks and its sources list.  enumerate       *)
(* counts from 0 and the label is i+1; positions here count from 1.  The   *)
(* document paths of the model have no directory part, so file, the        *)
(* basename of the path, is the path.                                      *)
build_prompt(question, contexts) ==
    [question |-> question,
     context_block |->
         [k \in 1..Len(contexts) |->
             [label |-> (k - 1) + 1, title |-> contexts[k].doc_title,
              page |-> contexts[k].page_start, text |-> contexts[k].text]],
     sources_list |->
         [k \in 1..Len(contexts) |->
             [label |-> (k - 1) + 1, title |-> contexts[k].doc_title,
              year |-> contexts[k].year, page |-> contexts[k].page_start,
              file |-> contexts[k].doc_path]]]

(* lines 481-497: the prompt sent to the chat model and the sources *)
Answer(question, selected) ==
    [status |-> "ok", rows |-> selected,
     results |-> Render(selected, SourceEntry),
     prompt |-> build_prompt(question, selected)]


(***************************************************************************)
(* The handlers of app.py.  Each gives the response and the calls made to  *)
(* the embedding service (embed) and to the index (search: the k of each   *)
(* call).                                                                  *)
(***************************************************************************)
Request(endpoint, question, top_k, f, paths) ==
    [endpoint |-> endpoint, question |-> question, top_k |-> top_k,
     organism |-> f.organism, stressor |-> f.stressor,
     platform |-> f.platform, paths |-> paths]

Outcome(r, embed, search) ==
    [resp |-> r, calls |-> [embed |-> embed, search |-> search]]

(* lines 441-458 *)
search(rq) ==
    IF ~index.loaded THEN Outcome(Failure(400), 0, <<>>)
    ELSE LET em == embed_texts(<<rq.question>>)
         IN  IF SearchRaises(rq.top_k)
             THEN Outcome(Failure(500), 1, <<rq.top_k>>)
             ELSE LET hits == IndexSearch(em[1], rq.top_k)
                  IN  IF ~HitsInRange(hits)
                      THEN Outcome(Failure(500), 1, <<rq.top_k>>)
                      ELSE LET rows == HitRows(hits)
                               out  == DedupeFrom(rows, 1, {}, <<>>,
                                                  Len(rows) + 1)
                           IN  Outcome(
                                 Ok(out,
                                    [k \in 1..Len(out) |->
                                       Scored(_row_to_result(out[k]),
                                              out[k].score)]),
                                 1, <<rq.top_k>>)

(* lines 462-497 *)
ask(rq) ==
    IF ~index.loaded THEN Outcome(Failure(400), 0, <<>>)
    ELSE LET q_vec == embed_texts(<<rq.question>>)
             k     == max_k(rq.top_k)
         IN  IF SearchRaises(k) THEN Outcome(Failure(500), 1, <<k>>)
             ELSE LET hits == IndexSearch(q_vec[1], k)
                  IN  IF ~HitsInRange(hits)
                      THEN Outcome(Failure(500), 1, <<k>>)
                      ELSE LET rows == _apply_filters(HitRows(hits),
                                           rq.organism, rq.stressor,
                                           rq.platform)
                               selected == Dedupe(rows, rq.top_k)
                           IN  Outcome(Answer(rq.question, selected),
                                       1, <<k>>)

(* lines 509-513 *)
QueryGuess(question) ==
    [organism |-> _guess_from_text(question, ORGANISMS),
     stressor |-> _guess_from_text(question, STRESSORS),
     platform |-> _guess_from_text(question, PLATFORMS)]

(* lines 501-565 *)
ask_simple(rq) ==
    IF ~index.loaded THEN Outcome(Failure(400), 0, <<>>)
    ELSE LET q_vec == embed_texts(<<rq.question>>)
             k     == max_k(rq.top_k)
         IN  IF SearchRaises(k) THEN Outcome(Failure(500), 1, <<k>>)
             ELSE LET hits == IndexSearch(q_vec[1], k)
                  IN  IF ~HitsInRange(hits)
                      THEN Outcome(Failure(500), 1, <<k>>)
                      ELSE LET q_guess  == QueryGuess(rq.question)
                               rows     == SortByAdjusted(q_guess,
                                                          HitRows(hits))
                               selected == Dedupe(rows, rq.top_k)
                           IN  Outcome(Answer(rq.question, selected),
                                       1, <<k>>)

(* lines 190-202: the filters, the cut to top_k and the snippets *)
ContextOf(rows, rq) ==
    LET kept == PySlice(_apply_filters(rows, rq.organism, rq.stressor,
                                       rq.platform), rq.top_k)
    IN  Ok(kept, Render(kept, ContextEntry))

(* r.get("doc_path") in set(paths) *)
InPaths(r, list) == \E k \in 1..Len(list) : list[k] = r.doc_path

(* _pick_context trying the semantic search before the allowlist *)
_pick_context_search_first(rq) ==
    IF Truthy(rq.question.name) /\ index.loaded
    THEN LET q_vec == embed_texts(<<rq.question>>)
             k     == max_k(rq.top_k)
         IN  IF SearchRaises(k) THEN Outcome(Failure(500), 1, <<k>>)
             ELSE LET hits == IndexSearch(q_vec[1], k)
                  IN  IF ~HitsInRange(hits)
                      THEN Outcome(Failure(500), 1, <<k>>)
                      ELSE Outcome(ContextOf(Dedupe(HitRows(hits), rq.top_k),
                                             rq),
                                   1, <<k>>)
    ELSE IF ~rq.paths.none /\ rq.paths.list # <<>>
    THEN LET allowed(r) == InPaths(r, rq.paths.list)
         IN  Outcome(ContextOf(SelectSeq(meta, allowed), rq), 0, <<>>)
    ELSE Outcome(ContextOf(meta, rq), 0, <<>>)

(* lines 169-202 *)
_pick_context(rq) ==
    IF ~rq.paths.none /\ rq.paths.list # <<>>
    THEN LET allowed(r) == InPaths(r, rq.paths.list)
         IN  Outcome(ContextOf(SelectSeq(meta, allowed), rq), 0, <<>>)
    ELSE IF Truthy(rq.question.name) /\ index.loaded
    THEN LET q_vec == embed_texts(<<rq.question>>)
             k     == max_k(rq.top_k)
         IN  IF SearchRaises(k) THEN Outcome(Failure(500), 1, <<k>>)
             ELSE LET hits == IndexSearch(q_vec[1], k)
                  IN  IF ~HitsInRange(hits)
                      THEN Outcome(Failure(500), 1, <<k>>)
                      ELSE Outcome(ContextOf(Dedupe(HitRows(hits), rq.top_k),
                                             rq),
                                   1, <<k>>)
    ELSE Outcome(ContextOf(meta, rq), 0, <<>>)

(***************************************************************************)
(* Objects.  The handlers reach the shared list meta and its records by    *)
(* reference, so a statement that changes an object changes the shared     *)
(* state exactly when that object is the shared list or one of its         *)
(* records.  An object is the shared list, the record at a position of     *)
(* it, or an object the handler made.                                      *)
(***************************************************************************)
NewObject == [shared |-> FALSE, at |-> 0]
SharedList == [shared |-> TRUE, at |-> 0]
SharedRecord(pos) == [shared |-> TRUE, at |-> pos]

(* meta[i]: the record itself, a negative i counting from the end *)
Subscript(i) == SharedRecord(IF i >= 0 THEN i + 1 ELSE Len(meta) + i + 1)

(* the dict display of _row_to_result (lines 158-167), a list              *)
(* comprehension and sorted(...) each build a new object                   *)

(* _row_to_result handing back the record it was given *)
ResultDictSame(obj) == obj

ResultDict(obj) == NewObject
ListComprehension(obj) == NewObject
SortedCopy(obj) == NewObject

(* item["score"] = s and rows.sort(...): the statements of the handlers    *)
(* that change an object in place, with the object each acts on            *)
SetScore(obj, s) == [target |-> obj, op |-> "setitem", value |-> s]
SortInPlace(obj, sorted) == [target |-> obj, op |-> "sort", value |-> sorted]

(* the shared list after the statements writes, in their order: a         *)
(* statement changes it when its target is the list or one of its records  *)
RECURSIVE StoreAll(_, _)
StoreAll(list, writes) ==
    IF writes = <<>> THEN list
    ELSE LET w == Head(writes)
             stored == IF ~w.target.shared THEN list
                       ELSE IF w.op = "sort" THEN w.value
                       ELSE [list EXCEPT ![w.target.at] = Scored(@, w.value)]
         IN  StoreAll(stored, Tail(writes))

(* the hits before the first one whose id raises IndexError *)
RECURSIVE Reached(_)
Reached(hits) ==
    IF hits = <<>> \/ ~InRange(Head(hits).id) THEN <<>>
    ELSE <<Head(hits)>> \o Reached(Tail(hits))

(* lines 448-451: r = meta[i]; item = _row_to_result(r);                   *)
(* item["score"] = float(scores[j])                                        *)
search_writes(rq) ==
    IF SearchRaises(rq.top_k) THEN <<>>
    ELSE LET hits == Reached(IndexSearch(embed_texts(<<rq.question>>)[1],
                                         rq.top_k))
         IN  [j \in 1..Len(hits) |->
                 SetScore(ResultDict(Subscript(hits[j].id)), hits[j].score)]

(* lines 507 and 520: rows is the list the comprehension built, of the     *)
(* dicts meta[i] | {...}, and rows.sort(...) sorts that list               *)
ask_simple_writes(rq) ==
    IF SearchRaises(max_k(rq.top_k)) THEN <<>>
    ELSE LET hits == IndexSearch(embed_texts(<<rq.question>>)[1],
                                 max_k(rq.top_k))
         IN  IF ~HitsInRange(hits) THEN <<>>
             ELSE << SortInPlace(ListComprehension(NewObject),
                                 SortByAdjusted(QueryGuess(rq.question),
                                                HitRows(hits))) >>

(***************************************************************************)
(* GET /library and GET /stats                                             *)
(***************************************************************************)
(* needle in (r.get("doc_title") or "").lower(), or in the text, or in the *)
(* path (lines 394-398); the needles of the model are whole titles and     *)
(* paths in lower case, and no text of the model holds one                 *)
hit(needle, r) ==
    LET low(s) == CASE s = "X.pdf" -> "x.pdf" [] s = "Y.pdf" -> "y.pdf"
                    [] s = "TX" -> "tx" [] s = "TY" -> "ty" [] OTHER -> s
    IN  \/ needle = low(OrEmpty(r.doc_title))
        \/ needle = low(OrEmpty(r.doc_path))

(* lines 405-410: the key (int(y), "") of a year, (-10**9, "") without one *)
yr(v) == IF v.year = None THEN 0 - 1000000000
         ELSE CASE v.year = "2020" -> 2020 [] v.year = "2021" -> 2021

(* the order of the strings r.get("doc_path") or "" *)
path_key(r) ==
    CASE OrEmpty(r.doc_path) = "" -> 0 [] r.doc_path = "X.pdf" -> 1
      [] r.doc_path = "Y.pdf" -> 2 [] r.doc_path = "Z.pdf" -> 3

(* sorted(rows, key=key, reverse=reverse): a stable sort, and reverse      *)
(* keeps the rows of equal keys in their order                             *)
sorted(rows, key(_), reverse) ==
    LET n == Len(rows)
        first(j, i) ==
            \/ IF reverse THEN key(rows[j]) > key(rows[i])
                          ELSE key(rows[j]) < key(rows[i])
            \/ key(rows[j]) = key(rows[i]) /\ j < i
        place(i) == 1 + Cardinality({ j \in 1..n : first(j, i) })
    IN  [p \in 1..n |-> rows[CHOOSE i \in 1..n : place(i) = p]]

(* lines 424-431: one result per path, the first kept *)
RECURSIVE UniquePaths(_, _)
UniquePaths(results, seen_paths) ==
    IF results = <<>> THEN <<>>
    ELSE IF Head(results).path \in seen_paths
         THEN UniquePaths(Tail(results), seen_paths)
         ELSE <<Head(results)>>
              \o UniquePaths(Tail(results),
                             seen_paths \cup {Head(results).path})

(* lines 386-400: rows after the facet filters and the text match, with    *)
(* the object rows is: rows = meta binds the name to the shared list, and  *)
(* rows stays that list when neither the filters nor the match apply       *)
LibraryRows(rq) ==
    LET faceted == Truthy(rq.organism) \/ Truthy(rq.stressor)
                   \/ Truthy(rq.platform)
        rows1 == IF faceted
                 THEN [obj |-> ListComprehension(SharedList),
                       items |-> _apply_filters(meta, rq.organism,
                                                rq.stressor, rq.platform)]
                 ELSE [obj |-> SharedList, items |-> meta]
        match(r) == hit(rq.q, r)
    IN  IF Truthy(rq.q)
        THEN [obj |-> ListComprehension(rows1.obj),
              items |-> SelectSeq(rows1.items, match)]
        ELSE rows1

(* lines 402-412 *)
LibrarySorted(rq) ==
    LET rows == LibraryRows(rq)
    IN  IF rq.sort = "year"
        THEN [obj |-> SortedCopy(rows.obj),
              items |-> sorted(rows.items, yr, rq.order = "desc")]
        ELSE IF rq.sort = "path"
        THEN [obj |-> SortedCopy(rows.obj),
              items |-> sorted(rows.items, path_key, rq.order = "desc")]
        ELSE rows

(* lines 386-434 *)
library(rq) ==
    LET rows      == LibrarySorted(rq).items
        start     == (rq.page - 1) * rq.page_size
        page_rows == SubSeq(rows, Min(start, Len(rows)) + 1,
                            Min(start + rq.page_size, Len(rows)))
        results   == UniquePaths(Render(page_rows, _row_to_result), {})
    IN  Outcome([status |-> "ok", rows |-> page_rows, results |-> results,
                 total |-> Len(rows), page |-> rq.page,
                 page_size |-> rq.page_size], 0, <<>>)

(* sorted() sorts the new list it builds of its argument *)
library_writes(rq) ==
    IF rq.sort \in {"year", "path"}
    THEN << SortInPlace(LibrarySorted(rq).obj, LibrarySorted(rq).items) >>
    ELSE <<>>

(* Counter([r.get(key) for r in meta if r.get(key)]).most_common(): the    *)
(* values with their counts, the most frequent first and, among equal      *)
(* counts, the one met first in meta                                       *)
most_common(key) ==
    LET given(r) == Truthy(r[key])
        vals  == Render(SelectSeq(meta, given), LAMBDA r : r[key])
        fresh == { i \in 1..Len(vals) : \A j \in 1..(i - 1) : vals[j] # vals[i] }
        count(v) == Cardinality({ i \in 1..Len(vals) : vals[i] = v })
        nth(p) == CHOOSE i \in fresh :
                      Cardinality({ j \in fresh : j < i }) = p - 1
        tally == [p \in 1..Cardinality(fresh) |->
                     [value |-> vals[nth(p)], count |-> count(vals[nth(p)])]]
    IN  sorted(tally, LAMBDA t : t.count, TRUE)

(* lines 360-369 *)
stats ==
    Outcome([status |-> "ok", rows |-> <<>>, results |-> <<>>,
             organisms |-> most_common("organism"),
             stressors |-> most_common("stressor"),
             platforms |-> most_common("platform"),
             chunks |-> Len(meta)], 0, <<>>)

(* the statements of a handler that change an object in place.  /ask,      *)
(* _pick_context and /stats have none on a list of rows or on a record:    *)
(* their lists are built by comprehensions and slices and their dicts by   *)
(* r | {...} and by dict displays (lines 177, 190-201, 361-363, 468-479)   *)
Writes(rq) ==
    CASE rq.endpoint = "search" -> search_writes(rq)
      [] rq.endpoint = "ask_simple" -> ask_simple_writes(rq)
      [] rq.endpoint = "library" -> library_writes(rq)
      [] OTHER -> <<>>

ServeInit ==
    /\ \E st \in ServeStates : index = st.index /\ meta = st.meta
    /\ req = NoRequest /\ resp = NoResponse /\ calls = NoCalls
    /\ idxFile = NoFile /\ metaFile = NoFile
    /\ ing = IdleIngest /\ ld = IdleLoad
    /\ ck = IdleFrame
    /\ tg = IdleTag /\ emb = IdleEmbed

Serve(rq, out) ==
    /\ req = NoRequest
    /\ req' = rq
    /\ resp' = out.resp
    /\ calls' = out.calls
    /\ meta' = StoreAll(meta, Writes(rq))
    /\ UNCHANGED <<index, cvars, bvars, uvars>>

(* GET /search *)
Search ==
    \E q \in Questions, k \in TopKs :
        LET rq == Request("search", q, k, NoFilter, NoPaths)
        IN  Serve(rq, search(rq))

(* POST /ask *)
Ask ==
    \E q \in Questions, k \in TopKs, f \in Filters :
        LET rq == Request("ask", q, k, f, NoPaths)
        IN  Serve(rq, ask(rq))

(* POST /ask-simple *)
AskSimple ==
    \E q \in Questions, k \in TopKs :
        LET rq == Request("ask_simple", q, k, NoFilter, NoPaths)
        IN  Serve(rq, ask_simple(rq))

(* POST /mindmap, /story and /storytelling: lines 596 and 664, the call of *)
(* _pick_context with the fields of the request                            *)
BuildContext ==
    \E q \in Questions \cup {NoQuestion}, k \in TopKs, f \in Filters,
       paths \in Allowlists :
        LET rq == Request("context", q, k, f, paths)
        IN  Serve(rq, _pick_context(rq))

(* the query parameters of /library: q, the facets, page and page_size,    *)
(* sort and order; the fields of the other endpoints are left empty        *)
LibraryRequest(q, f, page, page_size, sort, order) ==
    [endpoint |-> "library", question |-> NoQuestion, top_k |-> 0,
     organism |-> f.organism, stressor |-> f.stressor,
     platform |-> f.platform, paths |-> NoPaths, q |-> q, page |-> page,
     page_size |-> page_size, sort |-> sort, order |-> order]

(* GET /library *)
Library ==
    \E q \in {None, "x.pdf"}, f \in Filters,
       pg \in { [page |-> 1, page_size |-> 20],
                [page |-> 2, page_size |-> 1] },
       sort \in {None, "year", "path"}, order \in {"asc", "desc"} :
        LET rq == LibraryRequest(q, f, pg.page, pg.page_size, sort, order)
        IN  Serve(rq, library(rq))

(* GET /stats *)
Stats ==
    LET rq == [endpoint |-> "stats", question |-> NoQuestion, top_k |-> 0,
               organism |-> None, stressor |-> None, platform |-> None,
               paths |-> NoPaths]
    IN  Serve(rq, stats)

(* the request's values are dropped when it is answered *)
Discard ==
    /\ req # NoRequest
    /\ req' = NoRequest /\ resp' = NoResponse /\ calls' = NoCalls
    /\ UNCHANGED <<index, meta, cvars, bvars, uvars>>

ServeNext ==
    Search \/ Ask \/ AskSimple \/ BuildContext \/ Library \/ Stats \/ Discard

SpecServe == ServeInit /\ [][ServeNext]_vars


(***************************************************************************)
(* Properties                                                              *)
(***************************************************************************)

(* C1: every chunk chunk_text returns has at most max_tokens tokens,       *)
(* unless the result is the single fallback chunk.                         *)
C1_TokenBudget ==
    (ck.pc = "done" /\ ~ck.fallback) =>
        \A k \in 1..Len(ck.result) :
            tokenize_len(ck.result[k]) <= ck.max_tokens

Retrieval == {"ask", "ask_simple", "context"}
Answered == req # NoRequest /\ resp.status = "ok"
ResultKey(x) == <<x.path, x.page>>
AllowlistGiven == req # NoRequest /\ ~req.paths.none /\ req.paths.list # <<>>

(* C2: no two rows returned by /ask, /ask-simple or _pick_context share    *)
(* their (doc_path, page_start) pair.                                      *)
C2_DedupInvariant ==
    (Answered /\ req.endpoint \in Retrieval) =>
        \A a, b \in 1..Len(resp.results) :
            a # b => ResultKey(resp.results[a]) # ResultKey(resp.results[b])

(* C3: under a non-empty filter value for a facet, every row returned by   *)
(* /ask and _pick_context has that facet equal to the value, so none has   *)
(* it null.                                                                *)
C3_FacetFilter ==
    (Answered /\ req.endpoint \in {"ask", "context"}) =>
        \A k \in 1..Len(resp.rows) :
            /\ Truthy(req.organism) => resp.rows[k].organism = req.organism
            /\ Truthy(req.stressor) => resp.rows[k].stressor = req.stressor
            /\ Truthy(req.platform) => resp.rows[k].platform = req.platform

(* a filtered request answered with rows while the metadata also holds a   *)
(* row without that facet and a row with another value of it               *)
C3_Witness ==
    /\ Answered /\ req.endpoint \in {"ask", "context"}
    /\ Truthy(req.organism) /\ resp.rows # <<>>
    /\ \E k \in 1..Len(meta) : meta[k].organism = None
    /\ \E k \in 1..Len(meta) : meta[k].organism \notin {None, req.organism}

(* C4: the number of rows returned by /ask, /ask-simple and _pick_context  *)
(* is at most the requested top_k, for every integer top_k.                *)
C4_CountBound ==
    (Answered /\ req.endpoint \in Retrieval) =>
        Len(resp.results) <= req.top_k

(* C5: without a loaded index, a request with a question and no allowlist  *)
(* ends in a failure.                                                      *)
C5_IndexUnavailable ==
    (req # NoRequest /\ ~index.loaded /\ Truthy(req.question.name)
       /\ ~AllowlistGiven) =>
        resp.status = "error"

(* C6: the serving location always holds a complete index file and a       *)
(* complete metadata file of the same build.                               *)
C6_BuildAtomic ==
    /\ idxFile.complete /\ metaFile.complete
    /\ idxFile.exists = metaFile.exists
    /\ idxFile.build = metaFile.build

(* C7: when run_ingest has written its files, the metadata lines are the   *)
(* records with ids 0..N-1 in order, the index holds N vectors, and the    *)
(* vector at ordinal i is the embedding of the text of record i.           *)
C7_BuildAlignment ==
    ing.pc = "done" =>
        LET lines == metaFile.content
            N == Len(ing.records)
        IN  /\ Len(lines) = N /\ Len(idxFile.content) = N
            /\ \A k \in 1..Len(lines) :
                 /\ lines[k].json
                 /\ lines[k].rec.id = k - 1
                 /\ k <= Len(idxFile.content)
                 /\ idxFile.content[k] = Embedding(lines[k].rec.text)

(* a finished run over a listing that starts with a document without text  *)
(* and has a blank page before a page of several chunks                    *)
C7_Witness ==
    /\ ing.pc = "done" /\ Len(metaFile.content) >= 2
    /\ ~HasText(ing.pdfs[1])
    /\ \E d \in 1..Len(ing.pdfs) :
         /\ HasText(ing.pdfs[d])
         /\ \E p \in 1..Len(ing.pdfs[d].pages) : IsBlank(ing.pdfs[d].pages[p])

(* C8: after a load that leaves an index loaded, the metadata sequence has *)
(* as many records as the index has vectors, and the record at position i  *)
(* has id = i.                                                             *)
C8_ServingAlignment ==
    (ld.pc = "loaded" /\ index.loaded) =>
        /\ Len(meta) = Len(index.vecs)
        /\ \A k \in 1..Len(meta) : meta[k].id = k - 1

(* C9: with a non-empty allowlist _pick_context succeeds without an        *)
(* embedding call or a search, and returns rows of allowlisted documents,  *)
(* in the order of the metadata, without a score.                          *)
C9_AllowlistPrecedence ==
    (AllowlistGiven /\ req.endpoint = "context") =>
        /\ resp.status = "ok"
        /\ calls.embed = 0 /\ calls.search = <<>>
        /\ \A k \in 1..Len(resp.results) :
             /\ \E a \in 1..Len(req.paths.list) :
                  req.paths.list[a] = resp.results[k].path
             /\ "score" \notin DOMAIN resp.results[k]
             /\ ~HasScore(resp.rows[k])
             /\ \E m \in 1..Len(meta) : meta[m] = resp.rows[k]
        /\ \A a, b \in 1..Len(resp.rows) :
             a < b => resp.rows[a].id < resp.rows[b].id

(* an allowlist request with a question, on a loaded index whose metadata  *)
(* also holds another document, answered with two rows                     *)
C9_Witness ==
    /\ AllowlistGiven /\ req.endpoint = "context"
    /\ Truthy(req.question.name) /\ index.loaded
    /\ Len(resp.results) >= 2
    /\ \E m \in 1..Len(meta) : ~InPaths(meta[m], req.paths.list)

(* the candidates of the answered request, in search order *)
Candidates == HitRows(IndexSearch(Embedding(req.question), max_k(req.top_k)))
Guess == QueryGuess(req.question)
Matches(guess, r) ==
    { d \in {"organism", "stressor", "platform"} :
        guess[d] # None /\ r[d] = guess[d] }
(* the search rank of a row: its first position among the candidates *)
Rank(cands, r) ==
    CHOOSE j \in 1..Len(cands) :
        /\ cands[j] = r
        /\ \A i \in 1..(j - 1) : cands[i] # r
Before(cands, guess, r1, r2) ==
    \/ Adjusted(guess, r1) > Adjusted(guess, r2)
    \/ /\ Adjusted(guess, r1) = Adjusted(guess, r2)
       /\ Rank(cands, r1) < Rank(cands, r2)

(* C10: in /ask-simple the adjusted score of a candidate is its score plus *)
(* 0.05 per facet that equals a non-null guess; the selected rows come in  *)
(* descending adjusted score, equal ones in search-rank order; the first   *)
(* is the best candidate, and a candidate is left out only for a selected  *)
(* row of its page that comes before it, or because top_k rows were kept.  *)
C10_RerankOrder ==
    (Answered /\ req.endpoint = "ask_simple") =>
        LET cands == Candidates
            guess == Guess
        IN  /\ \A j \in 1..Len(cands) :
                 LET r == cands[j]
                 IN  /\ Adjusted(guess, r) = r.score
                          + BonusStep * Cardinality(Matches(guess, r))
                     /\ Adjusted(guess, r) >= r.score
                     /\ Adjusted(guess, r) <= r.score + 3 * BonusStep
            /\ \A a, b \in 1..Len(resp.rows) :
                 a < b => Before(cands, guess, resp.rows[a], resp.rows[b])
            /\ \A j \in 1..Len(cands) :
                 LET r == cands[j]
                 IN  \/ \E a \in 1..Len(resp.rows) : resp.rows[a] = r
                     \/ \E a \in 1..Len(resp.rows) :
                          /\ RowKey(resp.rows[a]) = RowKey(r)
                          /\ Before(cands, guess, resp.rows[a], r)
                     \/ /\ Len(resp.rows) >= Max(req.top_k, 1)
                        /\ Before(cands, guess,
                                  resp.rows[Len(resp.rows)], r)

(* a rerank that moves a row matching all three guesses from the second    *)
(* search rank to the front                                                *)
C10_Witness ==
    /\ Answered /\ req.endpoint = "ask_simple"
    /\ Len(resp.rows) >= 2
    /\ Rank(Candidates, resp.rows[1]) = 2
    /\ Cardinality(Matches(Guess, resp.rows[1])) = 3


(* the number of surface terms of label i that occur in the lower-cased    *)
(* text of the tagger's call                                               *)
TermCount(i) ==
    Cardinality({ k \in 1..Len(tg.vocab[i].terms) :
                    \E f \in tg.t : Within(tg.vocab[i].terms[k], lower(f)) })
Labels == 1..Len(tg.vocab)

(* C11: tag_text returns none when every label has a zero count, and       *)
(* otherwise the first label, in vocabulary order, among those of maximal  *)
(* count; _guess_from_text returns the same on the same text.              *)
C11_TagResult ==
    tg.pc = "done" =>
        /\ (\A i \in Labels : TermCount(i) = 0) => tg.result = None
        /\ (\E i \in Labels : TermCount(i) > 0) =>
             \E i \in Labels :
                 /\ tg.result = tg.vocab[i].key
                 /\ \A j \in Labels : TermCount(j) <= TermCount(i)
                 /\ \A j \in Labels : j < i => TermCount(j) < TermCount(i)
        /\ tg.guess = tg.result

(* a text on which two labels share the maximal count, tagged with the     *)
(* first of the two                                                        *)
C11_Witness ==
    /\ tg.pc = "done"
    /\ \E i, j \in Labels :
         /\ i < j /\ TermCount(i) = TermCount(j) /\ TermCount(i) >= 2
         /\ \A m \in Labels : TermCount(m) <= TermCount(i)
         /\ tg.result = tg.vocab[i].key /\ tg.guess = tg.vocab[i].key


(* the surface terms of label i that occur in the text of the tagger's     *)
(* call when letter case is ignored on both sides                          *)
AnyCase(i) ==
    { k \in 1..Len(tg.vocab[i].terms) :
        \E f \in tg.t : Within(lower(tg.vocab[i].terms[k]), lower(f)) }

(* C20: every surface term that occurs in the text in some letter case is  *)
(* counted for its label, by tag_text and by _guess_from_text.             *)
C20_CaseInsensitive ==
    tg.pc = "done" =>
        \A i \in Labels :
            /\ tg.counts[i] = Cardinality(AnyCase(i))
            /\ CountIn(tg.vocab[i].terms, lower_text(tg.t))
                 = Cardinality(AnyCase(i))


Conforming == \A j \in 1..Len(emb.replies) : emb.replies[j] = "ok"

(* C12: embed_texts sends the consecutive slices of at most 64 strings,    *)
(* every string in exactly one request, and with a service that answers    *)
(* each request with one vector per string returns n vectors, the i-th the *)
(* one returned for the i-th string.                                       *)
C12_EmbedOrder ==
    emb.pc \in {"loop", "returned"} =>
        LET n == Len(emb.texts)
            R == emb.requests
        IN  /\ \A j \in 1..Len(R) :
                 /\ R[j][1] = B * (j - 1) + 1
                 /\ R[j][2] = Min(B * j, n)
                 /\ R[j][1] <= R[j][2]
            /\ emb.pc = "returned" =>
                 /\ \A k \in 1..n :
                      Cardinality({ j \in 1..Len(R) :
                                      R[j][1] <= k /\ k <= R[j][2] }) = 1
                 /\ Conforming =>
                      /\ Len(emb.out) = n
                      /\ \A k \in 1..n : emb.out[k] = Embedding(emb.texts[k])
                      /\ emb.out = embed_texts(emb.texts)

(* a returned call on more than 64 strings, not a multiple of 64 *)
C12_Witness ==
    /\ emb.pc = "returned" /\ Conforming
    /\ Len(emb.texts) > B /\ Len(emb.texts) % B # 0
    /\ Len(emb.requests) = 3

(* C13: a request that fails or is answered with a number of vectors other *)
(* than the batch size ends embed_texts with an error: it is the last      *)
(* request, nothing is returned, and no slice is requested twice.          *)
C13_EmbedFailure ==
    emb.pc # "idle" =>
        /\ \A j \in 1..Len(emb.replies) :
             emb.replies[j] # "ok" =>
                 /\ emb.pc = "raised"
                 /\ j = Len(emb.requests)
        /\ \A j, k \in 1..Len(emb.requests) :
             j # k => emb.requests[j] # emb.requests[k]


Prompted == Answered /\ req.endpoint \in {"ask", "ask_simple"}

(* C14: the context entries of _pick_context follow the selected rows; in  *)
(* /ask and /ask-simple the i-th selected row is labelled [i] in the       *)
(* context block and in the sources list of the prompt, and is the i-th    *)
(* returned source.                                                        *)
C14_CitationOrder ==
    /\ (Answered /\ req.endpoint = "context") =>
         /\ Len(resp.results) = Len(resp.rows)
         /\ \A i \in 1..Len(resp.rows) :
              /\ resp.results[i].path = resp.rows[i].doc_path
              /\ resp.results[i].page = resp.rows[i].page_start
              /\ resp.results[i].snippet.name = resp.rows[i].text.name
    /\ Prompted =>
         /\ Len(resp.prompt.context_block) = Len(resp.rows)
         /\ Len(resp.prompt.sources_list) = Len(resp.rows)
         /\ Len(resp.results) = Len(resp.rows)
         /\ \A i \in 1..Len(resp.rows) :
              /\ resp.prompt.context_block[i].label = i
              /\ resp.prompt.context_block[i].text.name = resp.rows[i].text.name
              /\ resp.prompt.context_block[i].page = resp.rows[i].page_start
              /\ resp.prompt.sources_list[i].label = i
              /\ resp.prompt.sources_list[i].file = resp.rows[i].doc_path
              /\ resp.prompt.sources_list[i].page = resp.rows[i].page_start
              /\ resp.results[i].path = resp.rows[i].doc_path
              /\ resp.results[i].page = resp.rows[i].page_start
              /\ resp.results[i].score = resp.rows[i].score

(* an answer of /ask-simple citing three pages, which the rerank put in an *)
(* order other than that of the metadata                                   *)
C14_Witness ==
    /\ Prompted /\ req.endpoint = "ask_simple"
    /\ Len(resp.rows) = 3
    /\ resp.rows[1].id > resp.rows[2].id

(* C15: a passage text given to the generation step is the first 800       *)
(* characters of the row's text at most, in _pick_context and in the       *)
(* prompt of /ask and /ask-simple; a snippet of _row_to_result is the text *)
(* of at most 400 characters, or its first 400 characters and an ellipsis. *)
C15_SnippetBounds ==
    /\ (Answered /\ req.endpoint = "context") =>
         \A i \in 1..Len(resp.results) :
             resp.results[i].snippet = Prefix(resp.rows[i].text, 800)
    /\ Prompted =>
         \A i \in 1..Len(resp.rows) :
             resp.prompt.context_block[i].text = Prefix(resp.rows[i].text, 800)
    /\ (Answered /\ req.endpoint = "search") =>
         \A i \in 1..Len(resp.results) :
             LET text == resp.rows[i].text
                 snippet == resp.results[i].snippet
             IN  IF text.len <= 400
                 THEN snippet.text = text /\ ~snippet.ellipsis
                 ELSE snippet.text = Prefix(text, 400) /\ snippet.ellipsis


(* the tokens of the page given to chunk_text: its candidates and one      *)
(* token for each break between two of them                                *)
RECURSIVE PageTokens(_)
PageTokens(text) ==
    IF text = <<>> THEN 0
    ELSE text[1].n * text[1].w + (IF Len(text) > 1 THEN 1 ELSE 0)
         + PageTokens(Tail(text))

(* the first n words of a string *)
RECURSIVE FirstWords(_, _)
FirstWords(s, n) ==
    IF n <= 0 \/ s = <<>> THEN <<>>
    ELSE IF RunWords(s[1]) >= n
         THEN <<[s[1] EXCEPT !.b = s[1].a + n - 1]>>
         ELSE <<s[1]>> \o FirstWords(Tail(s), n - RunWords(s[1]))

(* the words of a string, whatever separates them: maximal runs <<p, a, b>> *)
RECURSIVE SameWords(_)
SameWords(s) ==
    IF s = <<>> THEN <<>>
    ELSE IF Len(s) >= 2 /\ s[1].p = s[2].p /\ s[1].b + 1 = s[2].a
         THEN SameWords(<<[s[2] EXCEPT !.a = s[1].a]>> \o SubSeq(s, 3, Len(s)))
         ELSE <<<<s[1].p, s[1].a, s[1].b>>>> \o SameWords(Tail(s))

(* chunk c2 begins with the last words of chunk c1 *)
BeginsWithTailOf(c2, c1) ==
    \E n \in 1..Min(WordCount(c1), WordCount(c2)) :
        SameWords(FirstWords(c2, n)) = SameWords(LastWords(c1, n))

ScenarioA ==
    /\ ck.pc = "done"
    /\ ck.max_tokens = CHUNK_TOKENS /\ ck.overlap = CHUNK_OVERLAP
    /\ PageTokens(ck.candidates) \in 1900..2100

(* C16: a page of about 2000 tokens, chunked with budget 900 and overlap   *)
(* 200, gives at least 2 chunks of at most 900 tokens each, the second     *)
(* beginning with the last words of the first.                             *)
C16_ScenarioA ==
    ScenarioA =>
        /\ Len(ck.result) >= 2
        /\ \A k \in 1..Len(ck.result) : tokenize_len(ck.result[k]) <= 900
        /\ BeginsWithTailOf(ck.result[2], ck.result[1])


(* the records of the lines of a file that are valid JSON, in file order *)
WellFormed(lines) ==
    LET valid(l) == l.json
        kept == SelectSeq(lines, valid)
    IN  [k \in 1..Len(kept) |-> kept[k].rec]

(* C17: a load of the metadata file does not raise, and leaves in meta the *)
(* records of the well-formed lines of the file, in file order and nothing *)
(* else.                                                                   *)
C17_MalformedLines ==
    ld.pc # "idle" =>
        /\ ld.pc # "raised"
        /\ meta = WellFormed(ld.read)


(* a semantic retrieval: /ask, or _pick_context with a question, a loaded  *)
(* index and no allowlist                                                  *)
Semantic ==
    /\ Answered
    /\ \/ req.endpoint = "ask"
       \/ /\ req.endpoint = "context" /\ ~AllowlistGiven
          /\ Truthy(req.question.name) /\ index.loaded

(* the candidate equals every filter value the request gives *)
Passes(r) ==
    /\ Truthy(req.organism) => r.organism = req.organism
    /\ Truthy(req.stressor) => r.stressor = req.stressor
    /\ Truthy(req.platform) => r.platform = req.platform

(* the rows of s that no earlier row of s shares its page with *)
RECURSIVE FirstOfPages(_, _)
FirstOfPages(s, i) ==
    IF i > Len(s) THEN <<>>
    ELSE (IF \A j \in 1..(i - 1) : RowKey(s[j]) # RowKey(s[i])
          THEN <<s[i]>> ELSE <<>>) \o FirstOfPages(s, i + 1)

(* the first k rows of dedupe(filter(candidates)) *)
Expected ==
    LET unique == FirstOfPages(SelectSeq(Candidates, Passes), 1)
    IN  SubSeq(unique, 1, Min(req.top_k, Len(unique)))

(* C18: for k >= 1 the rows of a semantic retrieval are the first k rows   *)
(* of the candidates filtered and then deduplicated.                       *)
C18_PipelineOrder ==
    (Semantic /\ req.top_k >= 1) => resp.rows = Expected

(* the score a handler ranks by *)
RankScore(guess, r) ==
    IF req.endpoint = "ask_simple" THEN Adjusted(guess, r) ELSE r.score

(* r1 comes before r2 in the ranked order of the handler *)
Earlier(cands, guess, r1, r2) ==
    IF req.endpoint = "ask_simple" THEN Before(cands, guess, r1, r2)
    ELSE Rank(cands, r1) < Rank(cands, r2)

(* C19: the row kept for a page by /ask or /ask-simple is the earliest in  *)
(* ranked order of the candidates of that page that pass the filters, and  *)
(* no such candidate has a higher ranking score.                           *)
C19_DedupKeepsBest ==
    Prompted =>
        LET cands == Candidates
            guess == Guess
        IN  \A a \in 1..Len(resp.rows) :
                /\ \E j \in 1..Len(cands) : cands[j] = resp.rows[a]
                /\ Passes(resp.rows[a])
                /\ \A j \in 1..Len(cands) :
                     LET c == cands[j]
                     IN  (Passes(c) /\ RowKey(c) = RowKey(resp.rows[a])
                            /\ c # resp.rows[a]) =>
                             /\ Earlier(cands, guess, resp.rows[a], c)
                             /\ RankScore(guess, resp.rows[a])
                                  >= RankScore(guess, c)

(* an /ask-simple answer that keeps, for a page, a row whose similarity is *)
(* below that of a dropped row of the page, the bonus having put it first  *)
C19_Witness ==
    /\ Prompted /\ req.endpoint = "ask_simple"
    /\ LET cands == Candidates
           guess == Guess
       IN  \E a \in 1..Len(resp.rows), j \in 1..Len(cands) :
               /\ RowKey(cands[j]) = RowKey(resp.rows[a])
               /\ cands[j].score > resp.rows[a].score
               /\ Adjusted(guess, resp.rows[a]) > Adjusted(guess, cands[j])


(* the requests that reach the semantic search: /search, /ask and          *)
(* /ask-simple with a loaded index, and _pick_context with a question, a   *)
(* loaded index and no allowlist                                           *)
Searching ==
    /\ req # NoRequest /\ index.loaded
    /\ \/ req.endpoint \in {"search", "ask", "ask_simple"}
       \/ /\ req.endpoint = "context" /\ ~AllowlistGiven
          /\ Truthy(req.question.name)

(* the row of the shared metadata a returned row was made from *)
Unscored(r) == [k \in DOMAIN r \ {"score"} |-> r[k]]

(* C21: every semantic retrieval for a requested count k asks the index    *)
(* for exactly max(30, 4*k) neighbours, and every returned hit carries the *)
(* inner-product score found at its own position of the search result.     *)
C21_OverFetch ==
    Searching =>
        /\ calls.search = <<Max(30, 4 * req.top_k)>>
        /\ Answered =>
              LET hits == IndexSearch(embed_texts(<<req.question>>)[1],
                                      calls.search[1])
              IN  \A k \in 1..Len(resp.rows) :
                      \E j \in 1..Len(hits) :
                          /\ Unscored(resp.rows[k]) = MetaAt(hits[j].id)
                          /\ resp.rows[k].score = hits[j].score


WordIn(p, x, passages) ==
    \E k \in 1..Len(passages) :
        \E j \in 1..Len(passages[k]) :
            passages[k][j].p = p /\ passages[k][j].a <= x
                /\ x <= passages[k][j].b

(* C23: when the text has a non-blank candidate, every word of the text    *)
(* occurs in at least one returned chunk; in particular every word the     *)
(* greedy pass placed in a chunk is still in the result after the tail     *)
(* merge.                                                                  *)
C23_NoContentLoss ==
    (ck.pc = "done" /\ ~IsBlank(ck.candidates)) =>
        /\ \A p \in 1..Len(ck.candidates) :
               \A x \in 1..ck.candidates[p].n : WordIn(p, x, ck.result)
        /\ \A k \in 1..Len(ck.chunks) :
               \A j \in 1..Len(ck.chunks[k]) :
                   \A x \in (ck.chunks[k][j].a)..(ck.chunks[k][j].b) :
                       WordIn(ck.chunks[k][j].p, x, ck.result)


(* C24: chunk_text terminates for every text, max_tokens >= 1 and          *)
(* overlap >= 0: every iteration of the hard-split loop advances its start *)
(* by a positive number of words, and the call reaches its return.         *)
C24_Termination ==
    /\ [](ck.pc = "split" => Advance(ck) > 0)
    /\ <>(ck.pc = "done")


(* the hits of the search a request made that are neighbours the index     *)
(* found, the padding left out                                             *)
RealHits ==
    LET hits == IndexSearch(embed_texts(<<req.question>>)[1], calls.search[1])
        real(h) == h.id # PadId
    IN  SelectSeq(hits, real)

(* C25: every row a semantic retrieval returns is the metadata record of a *)
(* vector the index returned as a neighbour, with that neighbour's inner   *)
(* product as its score; no row is made from a padding id -1, also when    *)
(* the index holds fewer vectors than the neighbours asked for.            *)
C25_OnlyRealHits ==
    (Searching /\ Answered) =>
        LET hits == RealHits
        IN  \A k \in 1..Len(resp.rows) :
                /\ resp.rows[k].score # PadScore
                /\ \E j \in 1..Len(hits) :
                       /\ Unscored(resp.rows[k]) = meta[hits[j].id + 1]
                       /\ resp.rows[k].score = hits[j].score

=============================================================================
